---------------------------- MODULE Spec2Model ----------------------------
(***************************************************************************)
(* The hybrid-agent tutorial notebook                                      *)
(* (tutorials/agent-with-tavily-web-access/hybrid-agent-tutorial.ipynb)    *)
(* as a state machine.                                                     *)
(*                                                                         *)
(* The program is a Jupyter kernel executing the notebook's code cells,    *)
(* one statement at a time.  Its state is the kernel's namespace, the      *)
(* process environment, the cell outputs and the position of the cell      *)
(* being executed.  Library calls (dotenv, getpass, Tavily, Chroma,        *)
(* OpenAI, LangGraph) are blocking calls of the kernel: a call is issued,  *)
(* is in flight, and then either returns or raises.  What a library        *)
(* returns is chosen nondeterministically from what its call site allows.  *)
(***************************************************************************)
EXTENDS Integers, Sequences, FiniteSets, TLC

(***************************************************************************)
(* Bounds of the model.                                                    *)
(***************************************************************************)
\* invocation-cell runs explored (each run tags the messages it creates)
MaxRuns == 2
\* messages an agent run may accumulate before the library's step limit
\* (LangGraph's recursion limit) ends it with an error
MaxMsgs == 4
\* calendar days the session may span
MaxDate == 2

(***************************************************************************)
(* Values.                                                                 *)
(***************************************************************************)
Keys == {"TAVILY_API_KEY", "OPENAI_API_KEY"}

\* an environment variable that is not set (os.environ.get gives None)
UNSET == "<unset>"
\* a variable set to the empty string
EMPTY == ""
\* a key value already present in the process environment or in .env
PRESET == "sk-preset"
\* a key value a user types at the prompt
TYPED == "sk-typed"
\* a key the .env file does not mention
ABSENT == "<absent>"

\* `not os.environ.get(k)`: None and "" are both falsy
Falsy(v) == v \in {UNSET, EMPTY}

\* what getpass.getpass can return: the user may just press Enter
Entered == {EMPTY, TYPED}

\* the contents a .env file can have for the two keys
DotenvFiles == [Keys -> {ABSENT, EMPTY, PRESET}]

\* the documents of the persisted "crm" collection
Docs == {"doc1", "doc2"}

\* a deviation from CellOrder: the agent cell placed above the cell that
\* builds the chat clients
CellOrderAgentEarly ==
    << "creds", "store", "query", "show", "tools", "agent", "models",
       "invoke1", "view1", "invoke2", "view2" >>

\* the code cells of the notebook, top to bottom
CellOrder ==
    << "creds", "store", "query", "show", "tools", "models", "agent",
       "invoke1", "view1", "invoke2", "view2" >>

Cells == { CellOrder[i] : i \in 1..Len(CellOrder) }

InvokeCells == {"invoke1", "invoke2"}

\* names of the kernel namespace bound to library handles or imports
Names ==
    { "os", "tavily_client", "embeddings", "vector_store", "retriever",
      "vector_search_tool", "search", "extract", "crawl", "o3_mini",
      "gpt_4_1", "HumanMessage", "Markdown" }

\* a library handle: its constructor and its distinguishing argument
H(ctor, arg) == [ctor |-> ctor, arg |-> arg]

UNDEF == H("<undefined>", "")

\* an imported module or class
IMPORTED == H("<import>", "")

\* option values: <<>> is "no value", <<x>> is the value x
None == << >>
Some(x) == << x >>

VARIABLES
    env,          \* os.environ, restricted to the two API keys
    collection,   \* documents of the persisted Chroma collection "crm"
    date,         \* the calendar date (wall clock)
    ns,           \* kernel namespace: handle and import names
    search_results, \* kernel name search_results (option)
    today,        \* kernel name today (option)
    hybrid_agent, \* kernel name hybrid_agent
    inputs,       \* kernel name inputs (option of a message list)
    s,            \* kernel name s: the loop variable (option of a snapshot)
    message,      \* kernel name message (option)
    stream,       \* the generator returned by hybrid_agent.stream (option)
    printed,      \* what the loop of the cell run last has printed
    display,      \* what the cell run last displays as its value (option)
    cell,         \* the cell the kernel is executing, or "idle"
    pc,           \* the statement of that cell the kernel is at
    pending,      \* library calls issued by the kernel and not yet returned
    last,         \* position in CellOrder of the cell run last (0: none)
    stdin,        \* what the user typed at the last prompt of this cell run
    err,          \* whether an exception ended the last cell run
    runs,         \* invocation-cell runs started so far
    invoked,      \* run whose hybrid_agent.stream call was issued last
    yields,       \* lengths of the snapshots yielded to this cell run
    nStream       \* hybrid_agent.stream calls made by the current cell run

vars ==
    << env, collection, date, ns, search_results, today, hybrid_agent,
       inputs, s, message, stream, printed, display, cell, pc, pending,
       last, stdin, err, runs, invoked, yields, nStream >>

\* groups of variables, for UNCHANGED
extVars == << env, collection >>
objVars == << ns, search_results, today, hybrid_agent >>
msgVars == << inputs, s, message, stream, printed, display >>
histVars == << stdin, runs, invoked, yields, nStream >>

NOERR == "<none>"
RAISED == "<exception>"
IDLE == "idle"


(***************************************************************************)
(* Initial state: a fresh kernel.  The process environment may already     *)
(* hold either key, empty or not.                                          *)
(***************************************************************************)
NoAgent ==
    [bound |-> FALSE, model |-> UNDEF, tools |-> << >>, prompt |-> << 0, 0 >>]

InitKernel ==
    /\ env \in [Keys -> {UNSET, EMPTY, PRESET}]
    /\ collection = Docs
    /\ date = 1
    /\ ns = [n \in Names |-> UNDEF]
    /\ search_results = None
    /\ today = None
    /\ hybrid_agent = NoAgent
    /\ inputs = None
    /\ s = None
    /\ message = None
    /\ stream = None
    /\ printed = << >>
    /\ display = None
    /\ cell = IDLE
    /\ pc = "-"
    /\ pending = {}
    /\ last = 0
    /\ stdin = EMPTY
    /\ err = NOERR
    /\ runs = 0
    /\ invoked = 0
    /\ yields = << >>
    /\ nStream = 0

Init == InitKernel

(***************************************************************************)
(* The kernel: one cell at a time, one statement at a time.                *)
(***************************************************************************)
Bound(n) == ns[n] # UNDEF

\* the kernel is at statement l of cell c and has not issued its call
At(c, l) == cell = c /\ pc = l /\ l \notin pending

\* the kernel is at statement l of cell c, waiting for its call to return
Waiting(c, l) == cell = c /\ pc = l /\ l \in pending

\* a deviation from Blocking: the call is issued and the kernel moves on
FireAndForget(l, nxt) == pc' = nxt

\* a plain Python call blocks: the kernel stays on statement l, whose
\* successor is nxt, until the call returns
Blocking(l, nxt) == pc' = l

\* statement l issues its library call
Issue(l, nxt) ==
    /\ pending' = pending \cup {l}
    /\ Blocking(l, nxt)
    /\ UNCHANGED << cell, last, err >>

\* the call of statement l has returned; execution continues at nxt
Return(l, nxt) ==
    /\ pending' = pending \ {l}
    /\ pc' = nxt
    /\ UNCHANGED << cell, last, err >>

\* a statement that makes no library call completes
Goto(nxt) ==
    /\ pc' = nxt
    /\ UNCHANGED << cell, pending, last, err >>

\* the last statement of the cell has completed
Finish(l) ==
    /\ pending' = pending \ {l}
    /\ cell' = IDLE
    /\ pc' = "-"
    /\ UNCHANGED << last, err >>

\* a deviation from Abort: the exception is swallowed and the statement is
\* tried again
RetryOnError(l) ==
    /\ pending' = pending \ {l}
    /\ err' = RAISED
    /\ UNCHANGED << cell, pc, last >>

\* an exception raised at statement l is caught nowhere: it ends the cell
\* run
Abort(l) ==
    /\ pending' = pending \ {l}
    /\ cell' = IDLE
    /\ pc' = "-"
    /\ err' = RAISED
    /\ UNCHANGED last

\* the position of cell c in the notebook
Pos(c) == CHOOSE i \in 1..Len(CellOrder) : CellOrder[i] = c

\* the first statement of each cell after its import lines
FirstStmt(c) ==
    CASE c = "creds" -> "load_dotenv"
      [] c = "store" -> "embeddings"
      [] c = "query" -> "retriever"
      [] c = "show" -> "show"
      [] c = "tools" -> "vector_search_tool"
      [] c = "models" -> "o3_mini"
      [] c = "agent" -> "today"
      [] c \in InvokeCells -> "inputs"
      [] OTHER -> "markdown"

\* the names a cell's import lines bind that other cells read
Imports(c) ==
    CASE c = "creds" -> {"os"}
      [] c = "invoke1" -> {"HumanMessage"}
      [] c = "view1" -> {"Markdown"}
      [] OTHER -> {}

\* the kernel starts executing cell c: its import lines run.  Only the
\* output of the cell being run (or run last) is followed, so the output
\* areas start empty
Start(c) ==
    /\ cell = IDLE
    /\ cell' = c
    /\ last' = Pos(c)
    /\ pc' = FirstStmt(c)
    /\ err' = NOERR
    /\ nStream' = 0
    /\ stdin' = EMPTY
    /\ printed' = << >>
    /\ display' = None
    /\ yields' = << >>
    /\ ns' = [n \in Names |-> IF n \in Imports(c) THEN IMPORTED ELSE ns[n]]
    /\ IF c \in InvokeCells
         THEN /\ runs < MaxRuns
              /\ runs' = runs + 1
         ELSE UNCHANGED runs
    /\ UNCHANGED << extVars, date, search_results, today, hybrid_agent,
                    inputs, s, message, stream, pending, invoked >>

\* the user works through the notebook by hand: when the kernel is idle
\* they run the cell they ran last once more, or the cell below it,
\* whether or not the last run ended with an exception
RunCell ==
    \E c \in Cells :
        /\ Pos(c) \in {last, last + 1}
        /\ Start(c)

\* "Run All": the cells are executed top to bottom, and the run stops at
\* the first cell that raises
RunNext ==
    \E c \in Cells :
        /\ Pos(c) = last + 1
        /\ err = NOERR
        /\ Start(c)

\* midnight passes
Tick ==
    /\ date < MaxDate
    /\ date' = date + 1
    /\ UNCHANGED << extVars, objVars, msgVars, histVars, cell, pc, pending,
                    last, err >>

\* a library call in flight raises (network error, rate limit, bad key,
\* interrupt, step limit ...): nothing is assigned, the generator of a
\* running loop is discarded
Raise ==
    \E l \in pending :
        /\ cell # IDLE
        /\ Abort(l)
        /\ stream' = None
        /\ UNCHANGED << extVars, date, objVars, inputs, s, message, printed,
                        display, histVars >>

(***************************************************************************)
(* Cell "creds" (source lines 92-114).                                     *)
(***************************************************************************)
\* load_dotenv() with its default override=False: a key of the file is
\* exported only if the environment does not define it
LoadDotenv(e, f) ==
    [k \in Keys |-> IF e[k] = UNSET /\ f[k] # ABSENT THEN f[k] ELSE e[k]]

CallLoadDotenv ==
    \/ /\ At("creds", "load_dotenv")
       /\ Issue("load_dotenv", "tavily_key")
       /\ UNCHANGED << extVars, date, objVars, msgVars, histVars >>
    \/ /\ Waiting("creds", "load_dotenv")
       /\ \E f \in DotenvFiles : env' = LoadDotenv(env, f)
       /\ Return("load_dotenv", "tavily_key")
       /\ UNCHANGED << collection, date, objVars, msgVars, histVars >>

\* a deviation from NeedsPrompt: the prompt is shown only for an unset key
NeedsPromptUnsetOnly(k) == env[k] = UNSET

\* `if not os.environ.get(k):`
NeedsPrompt(k) == Falsy(env[k])

\* `if not os.environ.get(k): os.environ[k] = getpass.getpass(...)`
\* at statement l, followed by statement nxt
KeyStmt(k, l, nxt) ==
    \/ /\ At("creds", l)
       /\ IF NeedsPrompt(k) THEN Issue(l, nxt) ELSE Goto(nxt)
       /\ UNCHANGED << extVars, date, objVars, msgVars, histVars >>
    \/ /\ Waiting("creds", l)
       /\ \E v \in Entered :
            /\ stdin' = v
            /\ env' = [env EXCEPT ![k] = v]
       /\ Return(l, nxt)
       /\ UNCHANGED << collection, date, objVars, msgVars, runs, invoked,
                       yields, nStream >>

TavilyKey == KeyStmt("TAVILY_API_KEY", "tavily_key", "openai_key")

OpenAIKey == KeyStmt("OPENAI_API_KEY", "openai_key", "tavily_client")

\* a statement `name = Constructor(...)` at l of cell c that reads the names
\* `needs`: an unbound name is a NameError, otherwise the library is called
\* and its result bound to `name`; nxt is the next statement, "end" if none
Construct(c, l, nxt, needs, name, value) ==
    \/ /\ At(c, l)
       /\ IF \A n \in needs : Bound(n) THEN Issue(l, nxt) ELSE Abort(l)
       /\ UNCHANGED << extVars, date, objVars, msgVars, histVars >>
    \/ /\ Waiting(c, l)
       /\ ns' = [ns EXCEPT ![name] = value]
       /\ IF nxt = "end" THEN Finish(l) ELSE Return(l, nxt)
       /\ UNCHANGED << extVars, date, search_results, today, hybrid_agent,
                       msgVars, histVars >>

\* tavily_client = TavilyClient(api_key=os.getenv("TAVILY_API_KEY"))
MakeTavilyClient ==
    Construct("creds", "tavily_client", "end", {"os"}, "tavily_client",
              H("TavilyClient", "api_key=os.getenv(TAVILY_API_KEY)"))

(***************************************************************************)
(* Cells "store", "query" and "show" (source lines 130-201).               *)
(***************************************************************************)
\* Chroma(collection_name="crm", persist_directory="supplemental/db") opens
\* the persisted collection; what the collection holds afterwards
OpenCollection(col) == col

\* a deviation from QueryCollection: the query text is stored as a document
QueryCollectionUpsert(col) == col \cup {"robotics use case"}

\* a similarity query reads the collection; what it holds afterwards
QueryCollection(col) == col

\* the documents a similarity query can return: the retriever's default is
\* the 4 nearest documents, which is every document of a collection this
\* small, or nothing when the query matches none
QueryResults(col) == {{}, col}

\* embeddings = OpenAIEmbeddings()   (reads OPENAI_API_KEY itself)
MakeEmbeddings ==
    Construct("store", "embeddings", "vector_store", {}, "embeddings",
              H("OpenAIEmbeddings", ""))

\* vector_store = Chroma(collection_name="crm", embedding_function=embeddings,
\*                       persist_directory="supplemental/db")
MakeVectorStore ==
    \/ /\ At("store", "vector_store")
       /\ Issue("vector_store", "end")
       /\ UNCHANGED << extVars, date, objVars, msgVars, histVars >>
    \/ /\ Waiting("store", "vector_store")
       /\ ns' = [ns EXCEPT !["vector_store"] = H("Chroma", "crm")]
       /\ collection' = OpenCollection(collection)
       /\ Finish("vector_store")
       /\ UNCHANGED << env, date, search_results, today, hybrid_agent,
                       msgVars, histVars >>

\* retriever = vector_store.as_retriever()
MakeRetriever ==
    Construct("query", "retriever", "search_results", {"vector_store"},
              "retriever", H("VectorStoreRetriever", "crm"))

\* search_results = retriever.invoke("robotics use case")
QueryIndex ==
    \/ /\ At("query", "search_results")
       /\ Issue("search_results", "end")
       /\ UNCHANGED << extVars, date, objVars, msgVars, histVars >>
    \/ /\ Waiting("query", "search_results")
       /\ \E r \in QueryResults(collection) : search_results' = Some(r)
       /\ collection' = QueryCollection(collection)
       /\ Finish("search_results")
       /\ UNCHANGED << env, date, ns, today, hybrid_agent, msgVars,
                       histVars >>

\* for result in search_results: print(result.page_content); print("\n")
ShowResults ==
    /\ At("show", "show")
    /\ IF search_results # None THEN Finish("show") ELSE Abort("show")
    /\ UNCHANGED << extVars, date, objVars, msgVars, histVars >>

(***************************************************************************)
(* Cells "tools" and "models" (source lines 211-260).                      *)
(***************************************************************************)
\* vector_search_tool = retriever.as_tool(name="vector_search", ...)
MakeVectorSearchTool ==
    Construct("tools", "vector_search_tool", "search", {"retriever"},
              "vector_search_tool", H("RetrieverTool", "vector_search"))

\* search = TavilySearch(max_results=10, topic="general")
MakeSearch ==
    Construct("tools", "search", "extract", {}, "search",
              H("TavilySearch", "max_results=10,topic=general"))

\* extract = TavilyExtract(extract_depth="advanced")
MakeExtract ==
    Construct("tools", "extract", "crawl", {}, "extract",
              H("TavilyExtract", "extract_depth=advanced"))

\* crawl = TavilyCrawl()
MakeCrawl ==
    Construct("tools", "crawl", "end", {}, "crawl",
              H("TavilyCrawl", ""))

\* o3_mini = ChatOpenAI(model="o3-mini-2025-01-31", api_key=os.getenv(...))
MakeO3Mini ==
    Construct("models", "o3_mini", "gpt_4_1", {"os"}, "o3_mini",
              H("ChatOpenAI", "o3-mini-2025-01-31"))

\* gpt_4_1 = ChatOpenAI(model="gpt-4.1", api_key=os.getenv(...))
MakeGpt41 ==
    Construct("models", "gpt_4_1", "end", {"os"}, "gpt_4_1",
              H("ChatOpenAI", "gpt-4.1"))

(***************************************************************************)
(* Cell "agent" (source lines 292-405).                                    *)
(***************************************************************************)
\* datetime.datetime.today().strftime("%A, %B %d, %Y"): the weekday name
\* and the calendar day, as text
Strftime(d) == << d % 7, d >>

\* a deviation from SetToday: the date is computed once per session and
\* kept when the cell is run again
SetTodayOnce ==
    /\ At("agent", "today")
    /\ today' = IF today = None THEN Some(Strftime(date)) ELSE today
    /\ Goto("hybrid_agent")
    /\ UNCHANGED << extVars, date, ns, search_results, hybrid_agent, msgVars,
                    histVars >>

\* today = datetime.datetime.today().strftime(...)
SetToday ==
    /\ At("agent", "today")
    /\ today' = Some(Strftime(date))
    /\ Goto("hybrid_agent")
    /\ UNCHANGED << extVars, date, ns, search_results, hybrid_agent, msgVars,
                    histVars >>

\* a deviation from AgentModel: the other client is passed
AgentModelO3 == "o3_mini"

\* model=gpt_4_1
AgentModel == "gpt_4_1"

\* tools=[search, crawl, extract, vector_search_tool]
AgentTools == << "search", "crawl", "extract", "vector_search_tool" >>

\* the names the create_react_agent call reads
AgentNeeds == {AgentModel} \cup { AgentTools[i] : i \in 1..Len(AgentTools) }

\* hybrid_agent = create_react_agent(model=..., tools=[...], prompt=...)
MakeAgent ==
    \/ /\ At("agent", "hybrid_agent")
       /\ IF \A n \in AgentNeeds : Bound(n)
            THEN Issue("hybrid_agent", "end")
            ELSE Abort("hybrid_agent")
       /\ UNCHANGED << extVars, date, objVars, msgVars, histVars >>
    \/ /\ Waiting("agent", "hybrid_agent")
       /\ hybrid_agent' =
            [bound |-> TRUE,
             model |-> ns[AgentModel],
             tools |-> [i \in 1..Len(AgentTools) |-> ns[AgentTools[i]]],
             prompt |-> today[1]]
       /\ Finish("hybrid_agent")
       /\ UNCHANGED << extVars, date, ns, search_results, today, msgVars,
                       histVars >>

(***************************************************************************)
(* Messages and the agent's stream.                                        *)
(*                                                                         *)
(* The agent is a library object.  With stream_mode="values" its stream    *)
(* yields, after every step, the whole message list accumulated so far:    *)
(* first the input, then the list extended by a model response, then by    *)
(* the results of the tools that response requested, and so on until a     *)
(* model response requests no tool.                                        *)
(***************************************************************************)
Forms == {"object", "tuple"}

\* a message: who produced it, the invocation-cell run it was created in,
\* its position in the message list, its text (the question, for a human
\* message), whether it is a message object or a plain tuple, and whether
\* it requests tool calls
Msg(role, run, idx, text, form, calls) ==
    [role |-> role, run |-> run, idx |-> idx, text |-> text, form |-> form,
     calls |-> calls]

\* the question each invocation cell asks (source lines 419 and 478)
Question(c) ==
    IF c = "invoke1" THEN "latest news on google relevant to our CRM data"
                     ELSE "Google Deal size and latest earnings report"

\* HumanMessage(content=...)
HumanMessage(c, run) == Msg("human", run, 1, Question(c), "object", FALSE)

Last(seq) == seq[Len(seq)]

\* the result of calling tool t of the agent, as message idx of the list:
\* a tool message carrying the tool's name
ToolMsg(t, run, idx, form) == Msg("tool", run, idx, t.arg, form, FALSE)

\* what calling tool t does to the collection: only the vector-search tool
\* touches it, and it queries it
AfterTool(t, col) ==
    IF t.ctor = "RetrieverTool" THEN QueryCollection(col) ELSE col

\* the message lists the agent's next step can produce from msgs, and what
\* the step does to the collection: a model response, or the results of
\* the tool calls the last response requested (one call, or two calls of
\* one tool such as two sub-queries), made with one of the agent's own tools
AgentSteps(agent, run, msgs, col) ==
    LET n == Len(msgs)
        T == { agent.tools[i] : i \in 1..Len(agent.tools) }
    IN
    IF n = 0
      THEN {}
      ELSE
        IF Last(msgs).role = "ai"
          THEN
            IF Last(msgs).calls
              THEN
                { [msgs |-> Append(msgs, ToolMsg(t, run, n + 1, f)),
                   col |-> AfterTool(t, col)] : t \in T, f \in Forms }
                \cup
                { [msgs |-> msgs \o << ToolMsg(t, run, n + 1, "object"),
                                       ToolMsg(t, run, n + 2, "object") >>,
                   col |-> AfterTool(t, AfterTool(t, col))] : t \in T }
              ELSE {}
          ELSE
            { [msgs |-> Append(msgs, Msg("ai", run, n + 1, "-", "object", b)),
               col |-> col] : b \in BOOLEAN }

\* the agent has produced a response that requests no tool
Complete(msgs) ==
    /\ msgs # << >>
    /\ Last(msgs).role = "ai"
    /\ ~Last(msgs).calls

(***************************************************************************)
(* Cells "invoke1" and "invoke2" (source lines 408-431 and 469-490).       *)
(***************************************************************************)
\* a deviation from BuildInputs: the question is appended to the list of
\* the previous run
BuildInputsAppend(old, c, run) ==
    (IF old = None THEN << >> ELSE old[1]) \o << HumanMessage(c, run) >>

\* inputs = {"messages": [HumanMessage(content=...)]}
BuildInputs(old, c, run) == << HumanMessage(c, run) >>

SetInputs(c) ==
    /\ At(c, "inputs")
    /\ IF Bound("HumanMessage")
         THEN /\ inputs' = Some(BuildInputs(inputs, c, runs))
              /\ Goto("stream")
         ELSE /\ Abort("inputs")
              /\ UNCHANGED inputs
    /\ UNCHANGED << extVars, date, objVars, s, message, stream, printed,
                    display, histVars >>

\* hybrid_agent.stream(inputs, stream_mode="values"): the call only builds
\* the generator; the agent runs when the loop asks for a snapshot
CallStream(c) ==
    /\ At(c, "stream")
    /\ IF hybrid_agent.bound
         THEN /\ stream' = Some([agent |-> hybrid_agent, run |-> runs,
                                 msgs |-> inputs[1], started |-> FALSE])
              /\ invoked' = runs
              /\ nStream' = nStream + 1
              /\ Goto("next")
         ELSE /\ Abort("stream")
              /\ UNCHANGED << stream, invoked, nStream >>
    /\ UNCHANGED << extVars, date, objVars, inputs, s, message, printed,
                    display, stdin, runs, yields >>

\* the statement the loop goes to after its body
AfterBody == "next"

\* the loop of cell c has asked its generator for a snapshot
Generating(c) == Waiting(c, "next") /\ stream # None

\* `for s in <generator>`: the loop asks the generator for its next
\* snapshot; the generator yields one, or is exhausted and the loop (the
\* last statement of the cell) ends
NextSnapshot(c) ==
    \/ /\ At(c, "next")
       /\ Issue("next", "message")
       /\ UNCHANGED << extVars, date, objVars, msgVars, histVars >>
    \/ /\ Generating(c)
       /\ ~stream[1].started
       /\ stream' = Some([stream[1] EXCEPT !.started = TRUE])
       /\ s' = Some(stream[1].msgs)
       /\ yields' = Append(yields, Len(stream[1].msgs))
       /\ Return("next", "message")
       /\ UNCHANGED << extVars, date, objVars, inputs, message, printed,
                       display, stdin, runs, invoked, nStream >>
    \/ /\ Generating(c)
       /\ stream[1].started
       /\ \E step \in AgentSteps(stream[1].agent, stream[1].run,
                                 stream[1].msgs, collection) :
            /\ Len(step.msgs) <= MaxMsgs
            /\ stream' = Some([stream[1] EXCEPT !.msgs = step.msgs])
            /\ s' = Some(step.msgs)
            /\ yields' = Append(yields, Len(step.msgs))
            /\ collection' = step.col
       /\ Return("next", "message")
       /\ UNCHANGED << env, date, objVars, inputs, message, printed,
                       display, stdin, runs, invoked, nStream >>
    \/ /\ Generating(c)
       /\ stream[1].started
       /\ Complete(stream[1].msgs)
       /\ stream' = None
       /\ Finish("next")
       /\ UNCHANGED << extVars, date, objVars, inputs, s, message, printed,
                       display, histVars >>

\* a deviation from LastOf: the first message of the snapshot
FirstOf(snapshot) == snapshot[1]

\* s["messages"][-1]
LastOf(snapshot) == snapshot[Len(snapshot)]

\* message = s["messages"][-1]
SetMessage(c) ==
    /\ At(c, "message")
    /\ IF s[1] # << >>
         THEN /\ message' = Some(LastOf(s[1]))
              /\ Goto("print")
              /\ UNCHANGED stream
         ELSE /\ Abort("message")
              /\ stream' = None
              /\ UNCHANGED message
    /\ UNCHANGED << extVars, date, objVars, inputs, s, printed, display,
                    histVars >>

\* `if isinstance(message, tuple): print(message)`
\* `else: message.pretty_print()`
HowPrinted(m) == IF m.form = "tuple" THEN "print" ELSE "pretty_print"

PrintMessage(c) ==
    /\ At(c, "print")
    /\ printed' =
         Append(printed, [how |-> HowPrinted(message[1]), msg |-> message[1]])
    /\ Goto(AfterBody)
    /\ UNCHANGED << extVars, date, objVars, inputs, s, message, stream,
                    display, histVars >>

(***************************************************************************)
(* Cells "view1" and "view2" (source lines 443-452 and 500-507).           *)
(***************************************************************************)
\* message.content
Content(m) == << m.run, m.idx, m.text >>

\* Markdown(message.content): the cell's value is displayed.  Markdown or
\* message may be unbound (NameError), and a tuple has no attribute content
\* (AttributeError)
ViewOutput(c) ==
    /\ At(c, "markdown")
    /\ IF Bound("Markdown") /\ message # None /\ message[1].form = "object"
         THEN /\ display' = Some(Content(message[1]))
              /\ Finish("markdown")
         ELSE /\ Abort("markdown")
              /\ UNCHANGED display
    /\ UNCHANGED << extVars, date, objVars, inputs, s, message, stream,
                    printed, histVars >>

(***************************************************************************)
(* Specifications.                                                         *)
(***************************************************************************)
\* the statements of the notebook, executed by the kernel
Statement ==
    \/ CallLoadDotenv
    \/ TavilyKey
    \/ OpenAIKey
    \/ MakeTavilyClient
    \/ MakeEmbeddings
    \/ MakeVectorStore
    \/ MakeRetriever
    \/ QueryIndex
    \/ ShowResults
    \/ MakeVectorSearchTool
    \/ MakeSearch
    \/ MakeExtract
    \/ MakeCrawl
    \/ MakeO3Mini
    \/ MakeGpt41
    \/ SetToday
    \/ MakeAgent
    \/ \E c \in InvokeCells : SetInputs(c)
    \/ \E c \in InvokeCells : CallStream(c)
    \/ \E c \in InvokeCells : NextSnapshot(c)
    \/ \E c \in InvokeCells : SetMessage(c)
    \/ \E c \in InvokeCells : PrintMessage(c)
    \/ \E c \in {"view1", "view2"} : ViewOutput(c)

\* what the kernel does on its own: a statement completes or raises
Exec == Statement \/ Raise

\* the notebook worked through by hand, within one day
Next == RunCell \/ Exec

Spec == Init /\ [][Next]_vars

\* "Run All" on a fresh kernel; midnight may pass during the run
TopDownNext == RunNext \/ Exec \/ Tick

TopDownSpec == Init /\ [][TopDownNext]_vars

\* the kernel does not stop in the middle of a cell, and a library call in
\* flight eventually returns or raises; the user may stop at any time
FairSpec == Spec /\ WF_vars(Exec)

\* the user goes on (next cell, or the same cell once more) as long as no
\* cell has raised
RunOn == RunCell /\ err = NOERR

\* the notebook worked through by hand over several days, up to the first
\* exception
ClockNext == RunOn \/ Exec \/ Tick

ClockSpec == Init /\ [][ClockNext]_vars

(***************************************************************************)
(* Properties.                                                             *)
(***************************************************************************)
KeyLabel(k) == IF k = "TAVILY_API_KEY" THEN "tavily_key" ELSE "openai_key"

\* the kernel takes a step of the statement it is at
Steps == pc' # pc \/ pending' # pending \/ cell' # cell

\* C1: in the credential cell, after load_dotenv, each key is handled on its
\* own: when the kernel executes the key's statement, the getpass prompt is
\* shown exactly if the variable is unset or empty, and otherwise nothing
\* changes; when the prompt returns, the variable holds what was entered and
\* the other variable is untouched; a prompt is shown at no other place.
C1_PromptIffMissing ==
    /\ [](\A k \in Keys :
            KeyLabel(k) \in pending => cell = "creds" /\ pc = KeyLabel(k))
    /\ [][\A k \in Keys :
            /\ At("creds", KeyLabel(k)) /\ Steps =>
                 /\ KeyLabel(k) \in pending' <=> env[k] \in {UNSET, EMPTY}
                 /\ env' = env
                 /\ err' = NOERR
            /\ Waiting("creds", KeyLabel(k)) /\ Steps /\ err' = NOERR =>
                 /\ env'[k] = stdin'
                 /\ \A j \in Keys \ {k} : env'[j] = env[j]
                 /\ KeyLabel(k) \notin pending'
         ]_vars

\* one key was prompted for and set to the typed value, the other was
\* present already and is about to be passed over
C1_Witness ==
    /\ cell = "creds"
    /\ pc = "openai_key"
    /\ stdin = TYPED
    /\ env["TAVILY_API_KEY"] = TYPED
    /\ env["OPENAI_API_KEY"] = PRESET

\* C2: an exception raised in a cell run (in particular by a library call
\* in flight: client, query, tool or agent construction, agent stream) ends
\* that run on the spot: the statement binds nothing, no later statement of
\* the cell runs, no call is left in flight, and nothing is issued again
\* until the user runs a cell.
C2_FailurePropagates ==
    /\ [](err = RAISED => cell = IDLE /\ pending = {} /\ stream = None)
    /\ [][err = NOERR /\ err' = RAISED =>
            /\ cell # IDLE
            /\ cell' = IDLE
            /\ pending' = {}
            /\ UNCHANGED << env, collection, ns, search_results, today,
                            hybrid_agent, inputs, s, message, printed,
                            display >>
         ]_vars

\* the agent's stream raised after it had yielded snapshots
C2_Witness ==
    /\ err = RAISED
    /\ cell = IDLE
    /\ last = Pos("invoke1")
    /\ Len(yields) >= 2

\* the steps of the notebook's flow, as the kernel's bindings show them
CredentialsLoaded == Bound("tavily_client")
RetrievalBuilt == Bound("vector_store") /\ Bound("retriever")
ToolsBuilt ==
    \A n \in {"search", "crawl", "extract", "vector_search_tool"} : Bound(n)
ModelBuilt == Bound("o3_mini") /\ Bound("gpt_4_1")
AgentBuilt == hybrid_agent.bound
AgentInvoked == invoked > 0

\* C3: in a top-to-bottom run each step starts only after the previous one
\* has completed: credentials, retrieval handle, the four tools, the chat
\* clients, the agent, the invocation.  The agent is never invoked before
\* it is built, nor built before the four tools and the model handle exist.
C3_StepsInOrder ==
    /\ last >= Pos("store") => CredentialsLoaded
    /\ last >= Pos("tools") => RetrievalBuilt
    /\ last >= Pos("models") => ToolsBuilt
    /\ last >= Pos("agent") => ModelBuilt
    /\ last >= Pos("invoke1") => AgentBuilt
    /\ RetrievalBuilt => CredentialsLoaded
    /\ ToolsBuilt => RetrievalBuilt
    /\ ModelBuilt => ToolsBuilt
    /\ AgentBuilt => ToolsBuilt /\ ModelBuilt
    /\ AgentInvoked => AgentBuilt
    /\ stream # None => AgentBuilt

\* the second invocation of a top-to-bottom run is waiting for a snapshot
C3_Witness ==
    /\ cell = "invoke2"
    /\ "next" \in pending
    /\ Len(yields) >= 1

\* C4: the agent holds exactly the four tool handles bound to search,
\* crawl, extract and vector_search_tool, each once, and the gpt-4.1
\* client as its model; the o3-mini client is never an agent's model, and
\* the agent a stream runs is that agent.
C4_AgentParts ==
    /\ hybrid_agent.bound =>
         /\ Len(hybrid_agent.tools) = 4
         /\ { hybrid_agent.tools[i] : i \in 1..4 } =
              { ns[n] : n \in {"search", "crawl", "extract",
                               "vector_search_tool"} }
         /\ Cardinality({ hybrid_agent.tools[i] : i \in 1..4 }) = 4
         /\ { hybrid_agent.tools[i].ctor : i \in 1..4 } =
              {"TavilySearch", "TavilyCrawl", "TavilyExtract",
               "RetrieverTool"}
         /\ hybrid_agent.model = ns["gpt_4_1"]
         /\ hybrid_agent.model.arg = "gpt-4.1"
         /\ hybrid_agent.model # ns["o3_mini"]
    /\ stream # None => stream[1].agent = hybrid_agent

\* the agent has been built and is being run
C4_Witness ==
    /\ hybrid_agent.bound
    /\ stream # None
    /\ stream[1].started

\* the kernel is inside the body of the loop of an invocation cell
InBody == cell \in InvokeCells /\ pc \in {"message", "print"}

\* C5: every snapshot yielded to the loop gets exactly one message printed,
\* the last message of that snapshot, in the order of the snapshots; a
\* tuple is printed with print, anything else with pretty_print.  Outside
\* the loop body as many messages are printed as snapshots were yielded,
\* and the last one printed is the last message of the last snapshot.
C5_OnePrintPerSnapshot ==
    /\ Len(printed) = IF InBody THEN Len(yields) - 1 ELSE Len(yields)
    /\ \A k \in 1..Len(printed) :
         /\ printed[k].msg = s[1][yields[k]]
         /\ printed[k].how =
              IF printed[k].msg.form = "tuple" THEN "print" ELSE "pretty_print"
    /\ yields # << >> => yields[Len(yields)] = Len(s[1])
    /\ \A k \in 1..(Len(yields) - 1) : yields[k] < yields[k + 1]

\* a whole run was printed: the question, a response asking for a tool, a
\* tuple tool result printed with print, and the final response
C5_Witness ==
    /\ cell = IDLE
    /\ err = NOERR
    /\ Len(printed) = 4
    /\ printed[3].how = "print"
    /\ printed[4].how = "pretty_print"
    /\ Complete(s[1])

\* C6: at most one call issued by the notebook is in flight; an invocation
\* cell calls the agent's stream once, before its loop; and the loop asks
\* for the next snapshot only when every snapshot so far has been printed.
C6_OneBlockingCall ==
    /\ Cardinality(pending) <= 1
    /\ cell \in InvokeCells =>
         nStream = IF pc \in {"inputs", "stream"} THEN 0 ELSE 1
    /\ nStream <= 1
    /\ stream # None => cell \in InvokeCells /\ nStream = 1
    /\ "next" \in pending => Len(printed) = Len(yields)

\* the loop has printed three snapshots and is waiting for the fourth
C6_Witness ==
    /\ "next" \in pending
    /\ Len(printed) = 3
    /\ Cardinality(pending) = 1

\* C7: no step of any cell adds, changes or removes a document of the
\* collection: it holds what it held before the session.
C7_CollectionUntouched ==
    /\ [](collection = Docs)
    /\ [][collection' = collection]_vars

\* the store was opened, the test query made, and the agent has called the
\* vector-search tool
C7_Witness ==
    /\ Bound("vector_store")
    /\ search_results # None
    /\ cell \in InvokeCells
    /\ pc = "print"
    /\ message[1].role = "tool"
    /\ message[1].text = "vector_search"

\* an invocation has ended: its cell has called the agent's stream and is
\* no longer running, and no other cell has been started since
InvocationEnded ==
    /\ cell = IDLE
    /\ last \in {Pos("invoke1"), Pos("invoke2")}
    /\ invoked = runs
    /\ nStream = 1

\* C8 as stated: an invocation ends only by completing, that is after a
\* model response that requests no further tool, with the loop having run
\* to its end.
C8_AlwaysCompletes ==
    InvocationEnded => err = NOERR /\ yields # << >> /\ Complete(s[1])

\* C8, amended: every invocation ends.  Either the agent reaches a model
\* response that requests no tool, nothing is added to the messages after
\* that response and the loop ends, or an exception raised by the stream
\* ends the cell run; the loop does not go on for ever.
C8_InvocationEnds ==
    /\ [][stream # None /\ Complete(stream[1].msgs) =>
            stream' = None \/ stream' = stream]_vars
    /\ [](InvocationEnded /\ err = NOERR =>
            /\ yields # << >>
            /\ Complete(s[1])
            /\ Len(printed) = Len(yields))
    /\ (cell \in InvokeCells) ~> (cell = IDLE)

\* an invocation went through a tool call and ended with a final response
C8_Witness ==
    /\ InvocationEnded
    /\ err = NOERR
    /\ Len(s[1]) = 4
    /\ s[1][3].role = "tool"
    /\ Complete(s[1])

\* C9 as stated: when a view cell displays its value after the agent has
\* been invoked, the value is the content of the last message of the last
\* snapshot streamed by the most recent invocation.
C9_ShowsLatestInvocation ==
    [][(cell \in {"view1", "view2"} /\ cell' = IDLE /\ err' = NOERR
          /\ invoked > 0) =>
            (/\ display' = Some(Content(Last(s[1])))
             /\ Last(s[1]).run = invoked)]_vars

\* C10: an invocation starts from a list of exactly one message, the human
\* message with the question of its cell, built by that cell run; every
\* message of the agent's list and of every snapshot was created in that
\* run, so nothing of an earlier invocation is carried over.
C10_FreshInputs ==
    /\ cell \in InvokeCells /\ pc # "inputs" =>
         /\ inputs # None
         /\ Len(inputs[1]) = 1
         /\ inputs[1][1].role = "human"
         /\ inputs[1][1].text = Question(cell)
         /\ inputs[1][1].run = runs
    /\ stream # None =>
         /\ stream[1].run = runs
         /\ stream[1].msgs # << >>
         /\ stream[1].msgs[1] = inputs[1][1]
         /\ \A i \in 1..Len(stream[1].msgs) : stream[1].msgs[i].run = runs
    /\ InBody =>
         \A i \in 1..Len(s[1]) : s[1][i].run = runs /\ s[1][i].idx = i

\* the second invocation has streamed the question, a response and a tool
\* result, while the first one's messages are gone
C10_Witness ==
    /\ runs = 2
    /\ cell = "invoke2"
    /\ pc = "print"
    /\ Len(s[1]) = 3
    /\ s[1][1].text = Question("invoke2")

\* C11 as stated: once the credential cell has completed (its last
\* statement has bound tavily_client), a later run of the cell shows no
\* prompt and changes neither key.  The environment is written by the
\* credential cell alone, so the keys then keep the values they had after
\* the first completed run.
C11_CredsIdempotent ==
    [][CredentialsLoaded /\ cell = "creds" =>
         /\ \A k \in Keys : KeyLabel(k) \notin pending'
         /\ env' = env
      ]_vars

\* C12: the date of the prompt is computed when the agent cell runs (its
\* first statement reads the clock) and the agent is built with the date
\* computed in that run; no other cell and no passing of time changes the
\* date of a built agent, and a stream runs the agent as it was built: so
\* an invocation carries the construction date whatever the date is then.
C12_DateFixedAtConstruction ==
    /\ [][At("agent", "today") /\ Steps =>
            today' = Some(Strftime(date))]_vars
    /\ [][today' # today => cell = "agent" /\ pc = "today"]_vars
    /\ [][hybrid_agent' # hybrid_agent =>
            /\ cell = "agent"
            /\ hybrid_agent'.prompt = today[1]
            /\ today' = today]_vars
    /\ [](stream # None => stream[1].agent = hybrid_agent)
    /\ [](cell = "agent" /\ pc = "hybrid_agent" =>
            today # None /\ today[1][2] <= date)

\* an agent built on day 1 is streaming on day 2
C12_Witness ==
    /\ stream # None
    /\ stream[1].started
    /\ stream[1].agent.prompt = Strftime(1)
    /\ date = 2

=============================================================================
